---- MODULE Spec2Model ----
(* State-machine model of h2o-py's abstract model builder                  *)
(* (h2o/model/h2o_model_builder.py): H2OModelBuilder.fit and .predict,     *)
(* the private helpers they call, and the part of the H2O server they talk *)
(* to (temporary frame keys, the REST requests, the remove call).          *)
(*                                                                         *)
(* Python values are tagged tuples, so that values of different Python     *)
(* types can be compared: <<"None">>, <<"int", 3>>, <<"str", "a">>,        *)
(* <<"float", "inf">>, <<"list", <<...>>>>, <<"H2OFrame", <<names>>>>, and *)
(* <<"key", n>> for the n-th temporary key string made by send_frame.      *)
(* A dict is a function from its key strings to such values.               *)
EXTENDS Integers, Sequences, FiniteSets, TLC

----------------------------------------------------------------------------
(* Bounds of the model.                                                    *)

\* number of fit/predict calls made on one builder
MaxCalls == 3
\* length of the feature lists handed to fit
MaxXLen == 2
\* length of the parameter list the server reports for an algorithm
MaxSchemaLen == 3

----------------------------------------------------------------------------
(* Python values.                                                          *)

None == <<"None">>
PyInt(i) == <<"int", i>>
PyStr(s) == <<"str", s>>
PyFloat(s) == <<"float", s>>
PyList(s) == <<"list", s>>
H2OFrame(names) == <<"H2OFrame", names>>
Key(n) == <<"key", n>>

\* sys.maxint, the sentinel _update writes in place of an infinite float: an
\* int, the largest of a build with 32-bit ints
SysMaxint == PyInt(2147483647)

isinstance(v, t) == v[1] = t

\* isinf(v) for a float v
isinf(v) == v[2] \in {"inf", "-inf"}

\* Python truth value of v, as tested by `if v:` / `if not v:`; the floats,
\* frames and keys of the model are non-zero and non-empty
Truthy(v) ==
  CASE v[1] = "None" -> FALSE
    [] v[1] = "int" -> v[2] # 0
    [] v[1] = "str" -> v[2] # ""
    [] v[1] = "list" -> Len(v[2]) > 0
    [] OTHER -> TRUE

\* d[k] = v on a dict
Put(d, k, v) == [kk \in (DOMAIN d) \cup {k} |-> IF kk = k THEN v ELSE d[kk]]

EmptyDict == [kk \in {} |-> None]

\* the error a call ended with (NoError when it returned)
NoError == "none"
MissingFeatures == "ValueError: No fit can be made, missing feature variables."
MissingFrame == "H2OMissingFrameError: No training frame supplied."
TrainingFrameType == "ValueError: training_frame must be a H2OFrame."
ColumnsNotInFrame == "ValueError: x must be column(s) in dataset"
ListConcatErr == "TypeError: can only concatenate list (not \"str\") to list"
OperandErr == "TypeError: unsupported operand type(s) for +"
ValidationType == "ValueError: Validation must be of type H2OFrame."
UnknownModel == "H2OUnknownModelError: Don't know what to do with model type"
NoTestData == "ValueError: Must specify test data"
NoModelKey == "TypeError: cannot concatenate 'str' and 'NoneType' objects"
IndexErr == "IndexError: list index out of range"
IntIndexErr == "TypeError: list indices must be integers, not str"
ServerError == "EnvironmentError: h2o-py got an unexpected HTTP status code"

ArgumentErrors == {MissingFeatures, TrainingFrameType, ColumnsNotInFrame,
                   ValidationType, NoTestData}

----------------------------------------------------------------------------
(* ModelBase: the class constants the dispatch compares against, and the   *)
(* table behaviour of H2OFrame the builder relies on.                      *)

BINOMIAL == "H2OBinomialModel"
MULTINOMIAL == "H2OMultinomialModel"
CLUSTERING == "H2OClusteringModel"
REGRESSION == "H2ORegressionModel"

\* public class attributes every builder inherits; dir() lists them
ClassAttrs == [k \in {"BINOMIAL", "MULTINOMIAL", "CLUSTERING", "REGRESSION"} |->
                 CASE k = "BINOMIAL" -> PyStr(BINOMIAL)
                   [] k = "MULTINOMIAL" -> PyStr(MULTINOMIAL)
                   [] k = "CLUSTERING" -> PyStr(CLUSTERING)
                   [] k = "REGRESSION" -> PyStr(REGRESSION)]

\* dataset.names()
names(dataset) == dataset[2]

\* c, a name or a 0-based index, is a column of the dataset
HasColumn(dataset, c) ==
  \/ isinstance(c, "int") /\ c[2] >= 0 /\ c[2] < Len(names(dataset))
  \/ isinstance(c, "str") /\ \E m \in 1..Len(names(dataset)) : names(dataset)[m] = c[2]

\* dataset[x]: truthy iff every requested column is a column of the dataset
FrameGetItem(dataset, x) ==
  IF isinstance(x, "list") THEN \A n \in 1..Len(x[2]) : HasColumn(dataset, x[2][n])
  ELSE HasColumn(dataset, x)

----------------------------------------------------------------------------
(* The private helpers of H2OModelBuilder, as operators.                   *)

\* _update: the dict of the public non-callable attributes, infinite floats
\* replaced by sys.maxint
update(a) ==
  [k \in DOMAIN a |->
     IF isinstance(a[k], "float") /\ isinf(a[k]) THEN SysMaxint ELSE a[k]]

set_and_check_x_y_nocheck(P, x, y) ==
  IF ~Truthy(x) \/ ~Truthy(y)
  THEN LET P1 == IF Truthy(x) THEN Put(P, "x", x) ELSE P
           P2 == IF Truthy(y) THEN Put(P1, "y", y) ELSE P1
       IN [err |-> NoError, x |-> P2["x"],
           y |-> IF "y" \notin DOMAIN P2 THEN None ELSE P2["y"], P |-> P2]
  ELSE [err |-> NoError, x |-> x, y |-> y, P |-> P]

\* _set_and_check_x_y: the (x, y) the rest of fit works with, the error
\* raised instead, and self._parameters afterwards
set_and_check_x_y(P, x, y) ==
  IF ~Truthy(x) \/ ~Truthy(y)
  THEN IF ~Truthy(P["x"])
       THEN [err |-> MissingFeatures, x |-> x, y |-> y, P |-> P]
       ELSE LET P1 == IF Truthy(x) THEN Put(P, "x", x) ELSE P
                P2 == IF Truthy(y) THEN Put(P1, "y", y) ELSE P1
            IN [err |-> NoError, x |-> P2["x"],
                y |-> IF "y" \notin DOMAIN P2 THEN None ELSE P2["y"], P |-> P2]
  ELSE [err |-> NoError, x |-> x, y |-> y, P |-> P]

\* _check_training_frame: the error it raises, or NoError. The message of
\* line 197 is built as x + " must be ...", which itself raises a TypeError
\* unless x is a str
check_training_frame(training_frame, x) ==
  IF ~Truthy(training_frame) THEN MissingFrame
  ELSE IF ~isinstance(training_frame, "H2OFrame") THEN TrainingFrameType
  ELSE IF ~FrameGetItem(training_frame, x)
       THEN IF isinstance(x, "str") THEN ColumnsNotInFrame
            ELSE IF isinstance(x, "list") THEN ListConcatErr
            ELSE OperandErr
  ELSE NoError

\* dataset.names()[i] for a list element or a target i
NameAt(dataset, i) == PyStr(names(dataset)[i[2] + 1])

\* _indexed_columns_to_named_columns
indexed_columns_to_named_columns(x, y, dataset) ==
  LET xs == x[2]
      convx == isinstance(xs[1], "int")
      badx == convx /\ \E n \in 1..Len(xs) : ~isinstance(xs[n], "int")
      convy == Truthy(y) /\ isinstance(y, "int")
      bady == convy /\ y[2] >= Len(names(dataset))
  IN IF badx THEN [err |-> IntIndexErr, x |-> x, y |-> y]
     ELSE IF bady THEN [err |-> IndexErr, x |-> x, y |-> y]
     ELSE [err |-> NoError,
           x |-> IF convx THEN PyList([n \in 1..Len(xs) |-> NameAt(dataset, xs[n])]) ELSE x,
           y |-> IF convy THEN NameAt(dataset, y) ELSE y]

\* `i in x` for a list x
InList(i, x) == \E n \in 1..Len(x[2]) : x[2][n] = i

set_ignored_columns_keep_y(x, y, dataset) ==
  LET cols == [n \in 1..Len(names(dataset)) |-> PyStr(names(dataset)[n])]
  IN PyList(SelectSeq(cols, LAMBDA i : ~InList(i, x)))

\* _set_ignored_columns: the value stored under "ignored_columns"
set_ignored_columns(x, y, dataset) ==
  LET cols == [n \in 1..Len(names(dataset)) |-> PyStr(names(dataset)[n])]
  IN PyList(SelectSeq(cols, LAMBDA i : ~InList(i, x) /\ i # y))

\* _set_validation_frame, given the key send_frame would return: the error
\* raised, self._parameters afterwards, and whether send_frame was called
set_validation_frame(P, validation_frame, key) ==
  IF Truthy(validation_frame) \/ "validation_frame" \in DOMAIN P
  THEN IF ~Truthy(validation_frame) /\ ~Truthy(P["validation_frame"])
       THEN [err |-> NoError, P |-> P, sent |-> FALSE]
       ELSE LET P1 == IF Truthy(validation_frame)
                      THEN Put(P, "validation_frame", validation_frame) ELSE P
            IN IF ~isinstance(P1["validation_frame"], "H2OFrame")
               THEN [err |-> ValidationType, P |-> P1, sent |-> FALSE]
               ELSE [err |-> NoError, P |-> Put(P1, "validation_frame", key),
                     sent |-> TRUE]
  ELSE [err |-> NoError, P |-> P, sent |-> FALSE]

\* {n["name"]: n["default_value"] for n in model_params_raw}
RECURSIVE DictOf(_)
DictOf(raw) ==
  IF raw = <<>> THEN EmptyDict
  ELSE LET n == raw[Len(raw)]
       IN Put(DictOf(SubSeq(raw, 1, Len(raw) - 1)), n[1], n[2])

fold_keep_nulls(P, model_params_raw) ==
  LET model_params_default == DictOf(model_params_raw)
      params_to_fill == {k \in DOMAIN P : k \in DOMAIN model_params_default}
  IN [k \in DOMAIN model_params_default |->
         IF k \in params_to_fill THEN P[k] ELSE model_params_default[k]]

\* _fold_default_params_with_user_params, given the server's parameter list
fold_default_params_with_user_params(P, model_params_raw) ==
  LET model_params_default == DictOf(model_params_raw)
      params_to_fill == {k \in DOMAIN P : k \in DOMAIN model_params_default}
      filled == [k \in DOMAIN model_params_default |->
                   IF k \in params_to_fill THEN P[k] ELSE model_params_default[k]]
      keys_to_pop == {k \in DOMAIN filled : filled[k] = None}
  IN [k \in (DOMAIN filled) \ keys_to_pop |-> filled[k]]

\* self._model_type.format(model_category): only the template holds a
\* replacement field
format(model_type, model_category) ==
  IF model_type = "H2O{}Model" THEN "H2O" \o model_category \o "Model"
  ELSE model_type

\* the wrapper class the if/elif chain of _set_fitted_model_and_model_type
\* constructs for a model type, "" when it raises instead
WrapperFor(model_type) ==
  IF model_type = BINOMIAL THEN "H2OBinomialModel"
  ELSE IF model_type = MULTINOMIAL THEN "H2OMultinomialModel"
  ELSE IF model_type = CLUSTERING THEN "H2OClusteringModel"
  ELSE IF model_type = REGRESSION THEN "H2ORegressionModel"
  ELSE ""

cleanup_training_only(P) == <<P["training_frame"]>>

\* the arguments of the h2o.remove calls at the end of fit, in order
cleanup(P) ==
  <<P["training_frame"]>> \o
  (IF "validation_frame" \in DOMAIN P /\ P["validation_frame"] # None
   THEN <<P["validation_frame"]>> ELSE <<>>)

----------------------------------------------------------------------------
(* The H2O server as the builder sees it.                                  *)

RECURSIVE LiveAfter(_, _)
\* the temporary keys left on the server after h2o.remove of each of args
LiveAfter(l, args) ==
  IF args = <<>> THEN l
  ELSE LiveAfter({k \in l : Key(k) # args[1]}, Tail(args))

RECURSIVE StaleIn(_, _)
\* some h2o.remove of args targets something that is not a live temporary key
StaleIn(l, args) ==
  IF args = <<>> THEN FALSE
  ELSE \/ ~(\E k \in l : Key(k) = args[1])
       \/ StaleIn({k \in l : Key(k) # args[1]}, Tail(args))

\* the requests h2o.remove issues for args
RemoveCalls(args) == [n \in 1..Len(args) |-> <<"remove", args[n]>>]

\* the destination key of the job the server runs for the n-th call
DestinationKey(n) == PyStr("model")

----------------------------------------------------------------------------
(* State.                                                                  *)

VARIABLES
  attrs,         \* the public attributes of the builder (x, y, training_frame, ...)
  parameters,    \* self._parameters: None until the first fit, then a dict
  model_type,    \* self._model_type
  fitted_model,  \* self._fitted_model: [cls, category, key]
  model_key,     \* self._model_key
  live,          \* temporary frame keys present on the server
  nkeys,         \* number of keys send_frame has handed out
  pc,            \* position of the running call, "idle" between calls
  op,            \* the call that runs or ran last: "none", "fit", "predict"
  err,           \* the error the last call raised, NoError if it returned
  calls,         \* the server requests of the running/last call, in order
  created,       \* the temporary keys the running/last call created
  stale,         \* the running/last call removed something not live
  in_x, in_y, in_vf,  \* the arguments of the running/last call: x, y and
                      \* validation_frame of fit, test_data (in_x) of predict
  x, y,          \* fit's locals x and y
  snapshot,      \* the mapping _update produced at the start of the fit
  model_params,  \* fit's local model_params (the request body)
  raw,           \* the parameter list the server reported to the fold
  category,      \* the model category the server reported to the dispatch
  ncalls         \* calls started so far

vars == <<attrs, parameters, model_type, fitted_model, model_key, live, nkeys,
          pc, op, err, calls, created, stale, in_x, in_y, in_vf, x, y,
          snapshot, model_params, raw, category, ncalls>>

builder == <<attrs, model_type, fitted_model, model_key>>
server == <<live, nkeys>>

NoModel == [cls |-> "None", category |-> "", key |-> None]

\* saved_parameters in fit: _update returns self._parameters itself, so the
\* name is bound to the dict every later write of fit goes to
saved_parameters == parameters

----------------------------------------------------------------------------
(* Builders and inputs.                                                    *)

Absent == <<"absent">>

\* a builder subclass instance with the given attributes; y and
\* validation_frame may be left undefined (lines 182 and 225 test for them);
\* x is always defined, line 171 reads it without a test
Builder(bx, by, tf, vf, tol) ==
  LET own == [k \in {"x", "y", "training_frame", "validation_frame", "tol"} |->
                CASE k = "x" -> bx [] k = "y" -> by [] k = "training_frame" -> tf
                  [] k = "validation_frame" -> vf [] k = "tol" -> tol]
      keys == {k \in DOMAIN own : own[k] # Absent}
  IN [k \in keys \cup DOMAIN ClassAttrs |->
        IF k \in keys THEN own[k] ELSE ClassAttrs[k]]

Columns == {"a", "b", "c", "d"}
Dataset == H2OFrame(<<"a", "b", "c", "d">>)
SmallDataset == H2OFrame(<<"d", "a">>)
NotAFrame == PyStr("frame.csv")

\* all lists of length 1..n over the elements of S
ListsOver(S, n) == {PyList(s) : s \in UNION {[1..m -> S] : m \in 1..n}}

IndexLists == ListsOver({PyInt(i) : i \in 0..3}, MaxXLen)
NameLists == ListsOver({PyStr(c) : c \in Columns}, MaxXLen)

\* arguments of fit when feature/target resolution is explored
ResolveX == {None, PyList(<<>>), PyStr("z")} \cup IndexLists \cup NameLists
ResolveY == {None} \cup {PyInt(i) : i \in 0..3} \cup {PyStr(c) : c \in Columns}

\* arguments of fit and predict when sequences of calls are explored
CallX == {None, PyList(<<PyStr("a"), PyStr("c")>>), PyList(<<PyInt(0), PyInt(2)>>)}
CallY == {None, PyStr("d")}
CallV == {None, SmallDataset, NotAFrame}
CallT == {None, SmallDataset}

Categories == {"Binomial", "Multinomial", "Clustering", "Regression", "AutoEncoder"}

\* what the server may report as the parameters of the algorithm
CallSchemas ==
  { << <<"training_frame", None>>, <<"validation_frame", None>>,
       <<"ignored_columns", None>>, <<"response_column", None>>,
       <<"tol", PyFloat("0.5")>>, <<"ntrees", PyInt(50)>> >>,
    << <<"training_frame", None>>, <<"ntrees", None>> >> }

----------------------------------------------------------------------------
(* fit, one action per stretch of code between two server requests.        *)

\* a call starts: the record of the previous call is dropped
StartCall(o, ax, ay, av) ==
  /\ op' = o
  /\ in_x' = ax /\ in_y' = ay /\ in_vf' = av
  /\ ncalls' = ncalls + 1
  /\ model_params' = EmptyDict /\ raw' = <<>> /\ category' = ""

\* fit raises e out of its prologue, before any request was made
RaiseEarly(e, P, lx, ly) ==
  /\ pc' = "idle" /\ err' = e
  /\ parameters' = P
  /\ x' = lx /\ y' = ly
  /\ calls' = <<>> /\ created' = {} /\ stale' = FALSE

\* fit(x, y, validation_frame), lines 58-75: reconciliation, feature/target
\* resolution, training-frame check, index conversion, ignored columns and
\* response column
FitBegin(XS, YS, VS) ==
  /\ pc = "idle" /\ ncalls < MaxCalls
  /\ \E ax \in XS, ay \in YS, av \in VS :
       LET P0 == update(attrs)
           r1 == set_and_check_x_y(P0, ax, ay)
           dataset == attrs["training_frame"]
           e2 == check_training_frame(dataset, r1.x)
           r3 == indexed_columns_to_named_columns(r1.x, r1.y, dataset)
           P3 == Put(r1.P, "ignored_columns", set_ignored_columns(r3.x, r3.y, dataset))
           P4 == IF Truthy(r3.y) THEN Put(P3, "response_column", r3.y) ELSE P3
       IN /\ StartCall("fit", ax, ay, av)
          /\ snapshot' = P0
          /\ IF r1.err # NoError THEN RaiseEarly(r1.err, r1.P, ax, ay)
             ELSE IF e2 # NoError THEN RaiseEarly(e2, r1.P, r1.x, r1.y)
             ELSE IF r3.err # NoError THEN RaiseEarly(r3.err, r1.P, r1.x, r1.y)
             ELSE /\ pc' = "set_training_frame" /\ err' = NoError
                  /\ parameters' = P4
                  /\ x' = r3.x /\ y' = r3.y
                  /\ calls' = <<>> /\ created' = {} /\ stale' = FALSE
  /\ UNCHANGED <<builder, server>>

\* _set_training_frame, line 78: send_frame and store the key
SetTrainingFrame ==
  /\ pc = "set_training_frame"
  /\ LET dataset_key == nkeys + 1
     IN /\ nkeys' = dataset_key
        /\ live' = live \cup {dataset_key}
        /\ created' = created \cup {dataset_key}
        /\ calls' = Append(calls, <<"send_frame", Key(dataset_key)>>)
        /\ parameters' = Put(parameters, "training_frame", Key(dataset_key))
  /\ pc' = "set_validation_frame"
  /\ UNCHANGED <<builder, op, err, stale, in_x, in_y, in_vf, x, y, snapshot,
                 model_params, raw, category, ncalls>>

\* _set_validation_frame, line 81
SetValidationFrame ==
  /\ pc = "set_validation_frame"
  /\ LET validation_key == nkeys + 1
         r == set_validation_frame(parameters, in_vf, Key(validation_key))
     IN /\ parameters' = r.P
        /\ IF r.sent
           THEN /\ nkeys' = validation_key
                /\ live' = live \cup {validation_key}
                /\ created' = created \cup {validation_key}
                /\ calls' = Append(calls, <<"send_frame", Key(validation_key)>>)
           ELSE UNCHANGED <<nkeys, live, created, calls>>
        /\ IF r.err # NoError
           THEN pc' = "idle" /\ err' = r.err
           ELSE pc' = "fold" /\ err' = NoError
  /\ UNCHANGED <<builder, op, stale, in_x, in_y, in_vf, x, y, snapshot,
                 model_params, raw, category, ncalls>>

\* _fold_default_params_with_user_params, line 84, the server answering the
\* GET with one of the parameter lists of RS
FoldParams(RS) ==
  /\ pc = "fold"
  /\ \E model_params_raw \in RS :
       /\ raw' = model_params_raw
       /\ model_params' = fold_default_params_with_user_params(parameters, model_params_raw)
  /\ calls' = Append(calls, <<"GET ModelBuilders">>)
  /\ pc' = "post"
  /\ UNCHANGED <<builder, server, parameters, op, err, created, stale,
                 in_x, in_y, in_vf, x, y, snapshot, category, ncalls>>

\* the GET of line 261 fails and fit raises
FoldFails ==
  /\ pc = "fold"
  /\ calls' = Append(calls, <<"GET ModelBuilders">>)
  /\ pc' = "idle" /\ err' = ServerError
  /\ UNCHANGED <<builder, server, parameters, op, created, stale,
                 in_x, in_y, in_vf, x, y, snapshot, model_params, raw,
                 category, ncalls>>

\* lines 89-90: the POST and the polling of the job, until it is done
Submit ==
  /\ pc = "post"
  /\ calls' = Append(calls, <<"POST ModelBuilders", model_params>>)
  /\ pc' = "dispatch"
  /\ UNCHANGED <<builder, server, parameters, op, err, created, stale,
                 in_x, in_y, in_vf, x, y, snapshot, model_params, raw,
                 category, ncalls>>

\* the POST or the job fails and fit raises
SubmitFails ==
  /\ pc = "post"
  /\ calls' = Append(calls, <<"POST ModelBuilders", model_params>>)
  /\ pc' = "idle" /\ err' = ServerError
  /\ UNCHANGED <<builder, server, parameters, op, created, stale,
                 in_x, in_y, in_vf, x, y, snapshot, model_params, raw,
                 category, ncalls>>

\* _set_fitted_model_and_model_type, line 93, the server reporting
\* model_category for the model
SetFittedModel ==
  /\ pc = "dispatch"
  /\ \E model_category \in Categories :
       LET destination_key == DestinationKey(ncalls)
           mt == format(model_type, model_category)
       IN /\ category' = model_category
          /\ model_key' = destination_key
          /\ model_type' = mt
          /\ IF WrapperFor(mt) # ""
             THEN /\ fitted_model' = [cls |-> WrapperFor(mt),
                                      category |-> model_category,
                                      key |-> destination_key]
                  /\ pc' = "cleanup" /\ err' = NoError
             ELSE /\ fitted_model' = fitted_model
                  /\ pc' = "idle" /\ err' = UnknownModel
  /\ calls' = Append(calls, <<"GET Models">>)
  /\ UNCHANGED <<attrs, server, parameters, op, created, stale,
                 in_x, in_y, in_vf, x, y, snapshot, model_params, raw, ncalls>>

\* the GET of line 295 fails and fit raises, the model key already set
SetFittedModelFails ==
  /\ pc = "dispatch"
  /\ model_key' = DestinationKey(ncalls)
  /\ calls' = Append(calls, <<"GET Models">>)
  /\ pc' = "idle" /\ err' = ServerError
  /\ UNCHANGED <<attrs, model_type, fitted_model, server, parameters, op,
                 created, stale, in_x, in_y, in_vf, x, y, snapshot,
                 model_params, raw, category, ncalls>>

\* lines 95-103: the removals, the restore of self._parameters, the return
Cleanup ==
  /\ pc = "cleanup"
  /\ LET args == cleanup(parameters)
     IN /\ calls' = calls \o RemoveCalls(args)
        /\ live' = LiveAfter(live, args)
        /\ stale' = StaleIn(live, args)
  /\ parameters' = saved_parameters
  /\ pc' = "idle"
  /\ UNCHANGED <<builder, nkeys, op, err, created, in_x, in_y, in_vf, x, y,
                 snapshot, model_params, raw, category, ncalls>>

----------------------------------------------------------------------------
(* predict, lines 110-150.                                                 *)

PredictBegin(ax) ==
  /\ pc = "idle" /\ ncalls < MaxCalls
  /\ StartCall("predict", ax, None, None)
  /\ x' = None /\ y' = None
  /\ UNCHANGED <<builder, parameters, snapshot>>

\* predict without test data raises at line 117
PredictNoData ==
  /\ \E test_data \in CallT :
       /\ ~Truthy(test_data)
       /\ PredictBegin(test_data)
  /\ pc' = "idle" /\ err' = NoTestData
  /\ calls' = <<>> /\ created' = {} /\ stale' = FALSE
  /\ UNCHANGED server

\* predict on a builder without a model key raises at line 123, after the
\* test data was sent
PredictNoModel ==
  /\ model_key = None
  /\ \E test_data \in CallT :
       /\ Truthy(test_data)
       /\ PredictBegin(test_data)
  /\ LET test_data_key == nkeys + 1
     IN /\ nkeys' = test_data_key
        /\ live' = live \cup {test_data_key}
        /\ created' = {test_data_key}
        /\ calls' = <<<<"send_frame", Key(test_data_key)>>>>
  /\ pc' = "idle" /\ err' = NoModelKey /\ stale' = FALSE

\* the POST of line 126 fails and predict raises
PredictFails ==
  /\ model_key # None
  /\ \E test_data \in CallT :
       /\ Truthy(test_data)
       /\ PredictBegin(test_data)
  /\ LET test_data_key == nkeys + 1
     IN /\ nkeys' = test_data_key
        /\ live' = live \cup {test_data_key}
        /\ created' = {test_data_key}
        /\ calls' = << <<"send_frame", Key(test_data_key)>>,
                       <<"POST Predictions", model_key, Key(test_data_key)>> >>
  /\ pc' = "idle" /\ err' = ServerError /\ stale' = FALSE

\* predict runs to its return
Predict ==
  /\ model_key # None
  /\ \E test_data \in CallT :
       /\ Truthy(test_data)
       /\ PredictBegin(test_data)
  /\ LET test_data_key == nkeys + 1
         removed == <<parameters["training_frame"]>>
     IN /\ nkeys' = test_data_key
        /\ live' = LiveAfter(live \cup {test_data_key}, removed)
        /\ stale' = StaleIn(live \cup {test_data_key}, removed)
        /\ created' = {test_data_key}
        /\ calls' = << <<"send_frame", Key(test_data_key)>>,
                       <<"POST Predictions", model_key, Key(test_data_key)>>,
                       <<"frame">> >> \o RemoveCalls(removed)
  /\ pc' = "idle" /\ err' = NoError

----------------------------------------------------------------------------
(* Specifications.                                                         *)

InitWith(B) ==
  /\ attrs \in B
  /\ parameters = None
  /\ model_type = "H2O{}Model"
  /\ fitted_model = NoModel
  /\ model_key = None
  /\ live = {} /\ nkeys = 0
  /\ pc = "idle" /\ op = "none" /\ err = NoError
  /\ calls = <<>> /\ created = {} /\ stale = FALSE
  /\ in_x = None /\ in_y = None /\ in_vf = None
  /\ x = None /\ y = None
  /\ snapshot = EmptyDict
  /\ model_params = EmptyDict /\ raw = <<>> /\ category = ""
  /\ ncalls = 0

\* builders on which sequences of fit and predict calls are explored
CallBuilders ==
  {Builder(bx, by, tf, vf, PyFloat("inf")) :
     bx \in {None, PyList(<<PyStr("b")>>)},
     by \in {Absent, PyStr("c")},
     tf \in {None, NotAFrame, Dataset},
     vf \in {Absent, None, NotAFrame, SmallDataset}}

Init == InitWith(CallBuilders)

Next ==
  \/ FitBegin(CallX, CallY, CallV)
  \/ SetTrainingFrame
  \/ SetValidationFrame
  \/ FoldParams(CallSchemas)
  \/ FoldFails
  \/ Submit
  \/ SubmitFails
  \/ SetFittedModel
  \/ SetFittedModelFails
  \/ Cleanup
  \/ PredictNoData
  \/ PredictNoModel
  \/ PredictFails
  \/ Predict

Spec == Init /\ [][Next]_vars

\* feature/target resolution alone: one fit call per builder, over every
\* feature list and target of the bounded input sets
ResolveBuilders ==
  {Builder(bx, by, tf, Absent, None) :
     bx \in {None, PyList(<<>>), PyList(<<PyStr("b")>>), PyList(<<PyInt(1)>>)},
     by \in {Absent, None, PyInt(0), PyInt(1), PyStr("c"), PyFloat("inf")},
     tf \in {None, NotAFrame, Dataset, SmallDataset}}

InitResolve == InitWith(ResolveBuilders)

NextResolve == ncalls = 0 /\ FitBegin(ResolveX, ResolveY, {None})

SpecResolve == InitResolve /\ [][NextResolve]_vars

\* folding: one fit per builder, run from its call to the fold, the server
\* answering with every parameter list of the bounded set
FoldBuilders ==
  {Builder(PyList(<<PyStr("b")>>), Absent, Dataset, vf, tol) :
     vf \in {Absent, None, SmallDataset},
     tol \in {None, PyFloat("0.5"), PyFloat("inf")}}
FoldSchemaEntries ==
  {"training_frame", "validation_frame", "tol", "ntrees"} \X {None, PyInt(50)}
FoldSchemas == UNION {[1..m -> FoldSchemaEntries] : m \in 0..MaxSchemaLen}

InitFold == InitWith(FoldBuilders)

NextFold ==
  \/ ncalls = 0 /\ FitBegin({None}, {None, PyStr("d")}, {None})
  \/ SetTrainingFrame
  \/ SetValidationFrame
  \/ FoldParams(FoldSchemas)

SpecFold == InitFold /\ [][NextFold]_vars

----------------------------------------------------------------------------
(* Properties.                                                             *)

FitExited == op = "fit" /\ pc = "idle"
FitReturned == FitExited /\ err = NoError
PredictReturned == op = "predict" /\ pc = "idle" /\ err = NoError

\* a validation frame was passed to fit or configured on the builder
ValidationSet ==
  \/ Truthy(in_vf)
  \/ "validation_frame" \in DOMAIN attrs /\ Truthy(attrs["validation_frame"])

\* the call issued h2o.remove(k) after the job was posted and the model fetched
RemovedAfterDispatch(k) ==
  \E i, j, n \in 1..Len(calls) :
    /\ i < j /\ j < n
    /\ calls[i][1] = "POST ModelBuilders"
    /\ calls[j][1] = "GET Models"
    /\ calls[n][1] = "remove" /\ calls[n][2] = Key(k)

\* C1: a fit that returns has created one temporary key for the training
\* frame, and a second one if a validation frame was set, and has issued a
\* removal for each of them after the job completed and the fitted model
\* was dispatched.
C1_FitRemovesKeys ==
  FitReturned =>
    /\ Cardinality(created) = (IF ValidationSet THEN 2 ELSE 1)
    /\ fitted_model.cls # "None" /\ fitted_model.key = model_key
    /\ \A k \in created : RemovedAfterDispatch(k)

C1_Witness ==
  /\ FitReturned /\ ValidationSet
  /\ Cardinality(created) = 2
  /\ \A k \in created : RemovedAfterDispatch(k)

\* C2: when fit exits, by return or by raise, none of the temporary keys it
\* created is still on the server.
C2_NoKeyLeftOnExit == FitExited => created \cap live = {}

\* C3: after a fit that returns, self._parameters equals the mapping
\* reconciliation produced at the start of that fit.
C3_ParametersRestored == FitReturned => parameters = snapshot

KnownCategories == {"Binomial", "Multinomial", "Clustering", "Regression"}

\* C4: in every fit of a sequence of fits, a category of Binomial,
\* Multinomial, Clustering or Regression selects the wrapper of that name
\* and fit goes on without error; any other category raises the
\* unknown-model error.
C4_DispatchByCategory ==
  (op = "fit" /\ category # "") =>
    IF category \in KnownCategories
    THEN /\ err = NoError
         /\ fitted_model.cls = "H2O" \o category \o "Model"
         /\ fitted_model.category = category
    ELSE err = UnknownModel /\ pc = "idle"

\* the builder has no stored features
NoStoredFeatures == ~Truthy(attrs["x"])

\* the column names of the training frame at the indices of the list l
NamesAt(l) ==
  PyList([n \in 1..Len(l[2]) |-> PyStr(names(attrs["training_frame"])[l[2][n][2] + 1])])

\* a feature list with its indices, if it is a list of indices, as names
AsNames(l) == IF isinstance(l[2][1], "int") THEN NamesAt(l) ELSE l

\* C5: the missing-features error is raised only if x is unset in the call
\* and the stored x is unset too; an unset x falls back to the stored x; a
\* call with features and no target on a builder without stored features
\* passes the check and works with the features it was given.
C5_MissingFeaturesOnlyAfterFallback ==
  op = "fit" =>
    /\ err = MissingFeatures => (~Truthy(in_x) /\ NoStoredFeatures)
    /\ (pc = "set_training_frame" /\ ~Truthy(in_x)) => x = AsNames(attrs["x"])
    /\ (pc = "set_training_frame" /\ Truthy(in_x) /\ ~Truthy(in_y)) => x = AsNames(in_x)

\* C6: once fit has resolved x and y, an x given as column indices is the
\* list of the column names at those indices, and a y given as a column
\* index (0 included) is the column name at that index, which is also the
\* response column.
C6_IndicesBecomeNames ==
  (op = "fit" /\ pc = "set_training_frame") =>
    /\ (Truthy(in_x) /\ isinstance(in_x[2][1], "int")) => x = NamesAt(in_x)
    /\ isinstance(in_y, "int") =>
         /\ y = PyStr(names(attrs["training_frame"])[in_y[2] + 1])
         /\ "response_column" \in DOMAIN parameters
         /\ parameters["response_column"] = y

\* the names the server's parameter list declares, and the default of a name
SchemaKeys == {raw[i][1] : i \in 1..Len(raw)}
ServerDefault(k) ==
  raw[CHOOSE i \in 1..Len(raw) :
        raw[i][1] = k /\ \A j \in (i + 1)..Len(raw) : raw[j][1] # k][2]
\* the value of schema key k after the user's value was laid over the default
Folded(k) == IF k \in DOMAIN parameters THEN parameters[k] ELSE ServerDefault(k)

\* C7: the folded body has exactly the schema keys whose final value is not
\* null, each with the user's value if the user has the key and the server
\* default otherwise; so no key outside the schema and no null is in it.
C7_FoldedBody ==
  (op = "fit" /\ pc = "post") =>
    /\ DOMAIN model_params = {k \in SchemaKeys : Folded(k) # None}
    /\ \A k \in DOMAIN model_params : model_params[k] = Folded(k)

C7_Witness ==
  /\ op = "fit" /\ pc = "post"
  /\ \E k \in DOMAIN parameters : k \notin SchemaKeys
  /\ \E k \in SchemaKeys : Folded(k) = None /\ ServerDefault(k) # None
  /\ \E k \in DOMAIN model_params :
       k \in DOMAIN parameters /\ model_params[k] # ServerDefault(k)
  /\ \E k \in DOMAIN model_params : k \notin DOMAIN parameters

\* position of column name c in the training frame
ColumnIndex(c) ==
  CHOOSE m \in 1..Len(names(attrs["training_frame"])) :
    names(attrs["training_frame"])[m] = c[2]

\* C8: with x and y resolved to names, ignored_columns holds the columns of
\* the dataset that are neither in x nor y, each once and in dataset order,
\* so that x, y and ignored_columns cover the dataset.
C8_IgnoredColumns ==
  (op = "fit" /\ pc = "set_training_frame" /\ ~isinstance(y, "int")) =>
    LET ign == parameters["ignored_columns"]
        cols == names(attrs["training_frame"])
    IN /\ \A n \in 1..Len(ign[2]) :
            /\ \E m \in 1..Len(cols) : ign[2][n] = PyStr(cols[m])
            /\ ~InList(ign[2][n], x) /\ ign[2][n] # y
       /\ \A n, m \in 1..Len(ign[2]) :
            n < m => ColumnIndex(ign[2][n]) < ColumnIndex(ign[2][m])
       /\ \A m \in 1..Len(cols) :
            InList(PyStr(cols[m]), x) \/ PyStr(cols[m]) = y \/ InList(PyStr(cols[m]), ign)

C8_Witness ==
  /\ op = "fit" /\ pc = "set_training_frame"
  /\ attrs["training_frame"] = Dataset
  /\ x = PyList(<<PyStr("a"), PyStr("c")>>) /\ y = PyStr("d")
  /\ in_x = PyList(<<PyInt(0), PyInt(2)>>)
  /\ parameters["ignored_columns"] = PyList(<<PyStr("b")>>)

\* the training frame is missing or is not an H2OFrame
BadTrainingFrame ==
  ~Truthy(attrs["training_frame"]) \/ ~isinstance(attrs["training_frame"], "H2OFrame")

\* C9: a fit with no x and no stored features raises the missing-features
\* error and has made no server request; a fit whose training frame is
\* missing or of the wrong type raises the missing-frame error or an
\* argument error and has made no server request.
C9_FailFast ==
  op = "fit" =>
    /\ (~Truthy(in_x) /\ NoStoredFeatures) =>
         (pc = "idle" /\ err = MissingFeatures /\ calls = <<>>)
    /\ BadTrainingFrame =>
         /\ pc = "idle" /\ calls = <<>>
         /\ err \in {MissingFrame} \cup ArgumentErrors
         /\ (Truthy(in_x) /\ Truthy(in_y)) =>
              err = (IF Truthy(attrs["training_frame"])
                     THEN TrainingFrameType ELSE MissingFrame)

C9_Witness ==
  /\ FitExited /\ ncalls > 1 /\ nkeys > 0
  /\ ~Truthy(in_x) /\ NoStoredFeatures
  /\ err = MissingFeatures /\ calls = <<>>

C9_WitnessFrame ==
  /\ FitExited /\ BadTrainingFrame /\ Truthy(in_x) /\ Truthy(in_y)
  /\ err = TrainingFrameType /\ calls = <<>>

\* C10: a predict that returns has removed the temporary key it created for
\* its test data, and every removal it issued targeted a live key.
C10_PredictRemovesItsKey ==
  PredictReturned => (created \cap live = {} /\ ~stale)

====
